---------------------------- MODULE Spec2Model ----------------------------
(***************************************************************************)
(* Model of the sales dashboard's analytic core (src/core): the Validator, *)
(* the KPI Engine, the Pareto Engine, the Forecaster's series preparation  *)
(* and projection, and the Scenario Simulator.                             *)
(*                                                                         *)
(* Every function of the core is a pure function of a tabular dataset.     *)
(* The state is the loaded dataset (df, columns), the call that was made   *)
(* last (call: the function and its arguments) and what it returned or     *)
(* raised (result).  Floating-point values are IEEE 754 binary64 numbers:   *)
(* every operation rounds to the nearest float, and the special values     *)
(* that division by zero produces (NaN, the infinities) are kept.          *)
(***************************************************************************)
EXTENDS Integers, Sequences, FiniteSets

VARIABLES df, columns, call, result

vars == <<df, columns, call, result>>

---------------------------------------------------------------------------
(* Bounds of the model.                                                    *)

MaxKpiRows == 3

\* the revenue literals of the KPI datasets, as numerator and denominator:
\* 0 and 3
KpiRevenueLiterals == {<<0, 1>>, <<3, 1>>}

\* the revenue literals of the decimal KPI datasets: 0.1, 0.2, 0.3 and 3
DecimalRevenueLiterals == {<<1, 10>>, <<2, 10>>, <<3, 10>>, <<3, 1>>}

OrderIds == {"NaN", "A1", "A2"}

KpiDates == {[year |-> 2024, month |-> 11, day |-> 30],
             [year |-> 2024, month |-> 12, day |-> 1],
             [year |-> 2025, month |-> 1, day |-> 15]}

MaxParetoRows == 3

\* the order lines of the Pareto datasets: product and revenue
ParetoItems == {<<"P1", 4>>, <<"P1", 1>>, <<"P1", -1>>,
                <<"P2", 4>>, <<"P2", 1>>, <<"P3", 1>>}

MaxValidationRows == 4

MaxForecastRows == 2

MaxPeriods == 13

MaxScenarios == 2

---------------------------------------------------------------------------
(* Numbers: IEEE 754 binary64 ("float64"), rounding to nearest, ties to     *)
(* even, after every operation.  A value is [k, s, m, e]: k = "nan" is NaN; *)
(* k = "inf" is the infinity of sign s; k = "num" is s * m * 2^e, where s   *)
(* is -1, 0 or 1 and m is an odd natural number (zero is s = 0, m = 0,      *)
(* e = 0; the sign of a zero is not kept).  m has up to 53 bits, more than  *)
(* a 32-bit integer of TLC holds, so it is a sequence of limbs: its digits  *)
(* in base 2^15, least significant first, without leading zeros.            *)

Abs(x) == IF x < 0 THEN -x ELSE x

Sign(x) == IF x < 0 THEN -1 ELSE IF x = 0 THEN 0 ELSE 1

\* the element of a singleton; {e : x \in {a}} computes the operand a once
\* and names its value x
Value(S) == CHOOSE x \in S : TRUE

Base == 2^15

\* the limbs of a natural number
RECURSIVE BFromInt(_)
BFromInt(n) == IF n = 0 THEN <<>> ELSE <<n % Base>> \o BFromInt(n \div Base)

\* leading (most significant) zero limbs removed
BNorm(a) ==
    Value({LET nonzero == {i \in 1..Len(x) : x[i] # 0}
           IN  IF nonzero = {} THEN <<>>
               ELSE SubSeq(x, 1, CHOOSE i \in nonzero : \A j \in nonzero : j <= i) :
           x \in {a}})

Limb(a, i) == IF i <= Len(a) THEN a[i] ELSE 0

RECURSIVE BAddFrom(_, _, _, _)
BAddFrom(a, b, i, carry) ==
    IF i > Len(a) /\ i > Len(b)
    THEN (IF carry = 0 THEN <<>> ELSE <<carry>>)
    ELSE Value({<<t % Base>> \o BAddFrom(a, b, i + 1, t \div Base) :
                t \in {Limb(a, i) + Limb(b, i) + carry}})

BAdd(a, b) == Value({BAddFrom(x, y, 1, 0) : x \in {a}, y \in {b}})

\* a - b for a >= b
RECURSIVE BSubFrom(_, _, _, _)
BSubFrom(a, b, i, borrow) ==
    IF i > Len(a) THEN <<>>
    ELSE Value({IF t < 0 THEN <<t + Base>> \o BSubFrom(a, b, i + 1, 1)
                ELSE <<t>> \o BSubFrom(a, b, i + 1, 0) :
                t \in {Limb(a, i) - Limb(b, i) - borrow}})

BSub(a, b) == Value({BNorm(BSubFrom(x, y, 1, 0)) : x \in {a}, y \in {b}})

\* -1, 0 or 1 as a is less than, equal to or greater than b
BCmp(a, b) ==
    Value({IF Len(x) < Len(y) THEN -1
           ELSE IF Len(x) > Len(y) THEN 1
           ELSE LET differ == {i \in 1..Len(x) : x[i] # y[i]}
                    top    == CHOOSE i \in differ : \A j \in differ : j <= i
                IN  IF differ = {} THEN 0
                    ELSE IF x[top] < y[top] THEN -1 ELSE 1 :
           x \in {a}, y \in {b}})

\* a * d for one limb d
RECURSIVE BMulLimbFrom(_, _, _, _)
BMulLimbFrom(a, d, i, carry) ==
    IF i > Len(a) THEN (IF carry = 0 THEN <<>> ELSE <<carry>>)
    ELSE Value({<<t % Base>> \o BMulLimbFrom(a, d, i + 1, t \div Base) :
                t \in {a[i] * d + carry}})

BMulLimb(a, d) ==
    Value({IF y = 0 THEN <<>> ELSE BMulLimbFrom(x, y, 1, 0) : x \in {a}, y \in {d}})

RECURSIVE BMulFrom(_, _, _)
BMulFrom(a, b, j) ==
    IF j > Len(b) THEN <<>>
    ELSE BAdd(BMulLimb(a, b[j]), BNorm(<<0>> \o BMulFrom(a, b, j + 1)))

BMul(a, b) == Value({BMulFrom(x, y, 1) : x \in {a}, y \in {b}})

\* a * 2^k
BShl(a, k) ==
    Value({IF x = <<>> THEN <<>>
           ELSE [i \in 1..(n \div 15) |-> 0] \o BMulLimb(x, 2^(n % 15)) :
           x \in {a}, n \in {k}})

\* a \div 2^k
BShr(a, k) ==
    Value({LET q == n \div 15
               r == n % 15
           IN  IF q >= Len(x) THEN <<>>
               ELSE BNorm([i \in 1..(Len(x) - q) |->
                              (x[i + q] \div 2^r) + (Limb(x, i + q + 1) % 2^r) * 2^(15 - r)]) :
           x \in {a}, n \in {k}})

\* bit i of a, bit 0 the least significant
BBit(a, i) == Value({(Limb(a, (n \div 15) + 1) \div 2^(n % 15)) % 2 : n \in {i}})

\* some bit of a below bit k is set
BLowBits(a, k) ==
    Value({\/ \E i \in 1..(n \div 15) : Limb(x, i) # 0
           \/ Limb(x, (n \div 15) + 1) % 2^(n % 15) # 0 :
           x \in {a}, n \in {k}})

RECURSIVE IntBitLen(_)
IntBitLen(n) == IF n = 0 THEN 0 ELSE 1 + IntBitLen(n \div 2)

\* the number of bits of a
BitLen(a) ==
    Value({IF x = <<>> THEN 0 ELSE (Len(x) - 1) * 15 + IntBitLen(x[Len(x)]) : x \in {a}})

RECURSIVE IntTrailingZeros(_)
IntTrailingZeros(n) == IF n % 2 = 1 THEN 0 ELSE 1 + IntTrailingZeros(n \div 2)

\* the number of zero bits at the low end of a # 0
TrailingZeros(a) ==
    Value({LET low == CHOOSE i \in 1..Len(x) :
                          x[i] # 0 /\ \A j \in 1..(i - 1) : x[j] = 0
           IN  (low - 1) * 15 + IntTrailingZeros(x[low]) :
           x \in {a}})

\* short division of a by one limb d, from the top limb: the remainder
\* followed by the limbs of the quotient
RECURSIVE BDivLimbFrom(_, _, _, _)
BDivLimbFrom(a, d, i, rem) ==
    IF i = 0 THEN <<rem>>
    ELSE Value({Append(BDivLimbFrom(a, d, i - 1, t % d), t \div d) :
                t \in {rem * Base + a[i]}})

\* the greatest digit q in lo..hi with b * q <= t, by bisection
RECURSIVE QuotientDigit(_, _, _, _)
QuotientDigit(t, b, lo, hi) ==
    IF lo = hi THEN lo
    ELSE Value({IF BCmp(BMulLimb(b, mid), t) <= 0
                THEN QuotientDigit(t, b, mid, hi)
                ELSE QuotientDigit(t, b, lo, mid - 1) :
                mid \in {(lo + hi + 1) \div 2}})

\* long division of a by b of several limbs, from the top limb: the
\* remainder followed by the limbs of the quotient
RECURSIVE BDivLongFrom(_, _, _, _)
BDivLongFrom(a, b, i, rem) ==
    IF i = 0 THEN <<rem>>
    ELSE Value({Value({Append(BDivLongFrom(a, b, i - 1, BSub(t, BMulLimb(b, d))), d) :
                       d \in {QuotientDigit(t, b, 0, Base - 1)}}) :
                t \in {BNorm(<<a[i]>> \o rem)}})

\* a \div b (q) and whether a % b # 0 (inexact), for b # 0
BDivMod(a, b) ==
    Value({IF Len(y) = 1
           THEN Value({[q |-> BNorm(Tail(res)), inexact |-> res[1] # 0] :
                       res \in {BDivLimbFrom(x, y[1], Len(x), 0)}})
           ELSE Value({[q |-> BNorm(Tail(res)), inexact |-> res[1] # <<>>] :
                       res \in {BDivLongFrom(x, y, Len(x), <<>>)}}) :
           x \in {a}, y \in {b}})

NaN == [k |-> "nan", s |-> 0, m |-> <<>>, e |-> 0]

Inf(s) == [k |-> "inf", s |-> s, m |-> <<>>, e |-> 0]

Zero == [k |-> "num", s |-> 0, m |-> <<>>, e |-> 0]

\* the float s * m * 2^e of a value that needs no rounding
Float(s, m, e) ==
    Value({IF x = <<>> THEN Zero
           ELSE Value({[k |-> "num", s |-> s, m |-> BShr(x, z), e |-> e + z] :
                       z \in {TrailingZeros(x)}}) :
           x \in {m}})

\* the float nearest to s * (m + f) * 2^e, where 0 < f < 1 if inexact and
\* f = 0 otherwise: 53 significant bits, fewer below 2^-1022 (the last place
\* is never below 2^-1074), a tie going to the even neighbour, and an
\* infinity from 2^1024 on
Round(s, m, e, inexact) ==
    Value({LET top   == e + BitLen(x)
               ulp   == IF top - 53 < -1074 THEN -1074 ELSE top - 53
               shift == ulp - e
           IN  IF x = <<>> THEN Zero
               ELSE IF shift <= 0
                    THEN (IF top > 1024 THEN Inf(s) ELSE Float(s, x, e))
               ELSE Value({Value({IF ulp + BitLen(r) > 1024 THEN Inf(s)
                                  ELSE Float(s, r, ulp) :
                                  r \in {IF /\ BBit(x, shift - 1) = 1
                                            /\ \/ inexact
                                               \/ BLowBits(x, shift - 1)
                                               \/ BBit(kept, 0) = 1
                                         THEN BAdd(kept, <<1>>) ELSE kept}}) :
                           kept \in {BShr(x, shift)}}) :
           x \in {m}})

\* the float of a Python int or a numpy int64 (exact below 2^53)
FInt(i) == Float(Sign(i), BFromInt(Abs(i)), 0)

IsNaN(a) == a.k = "nan"

FNeg(a) == Value({[x EXCEPT !.s = -x.s] : x \in {a}})

\* the exponent of the bit above the leading bit of a # 0
Top(a) == a.e + BitLen(a.m)

\* x + y for x # 0 much greater in magnitude than y rounds to x: y is less
\* than a quarter of the last place of x
FAdd(a, b) ==
    Value({IF x.k = "nan" \/ y.k = "nan" THEN NaN
           ELSE IF x.k = "inf" /\ y.k = "inf" THEN (IF x.s = y.s THEN x ELSE NaN)
           ELSE IF x.k = "inf" THEN x
           ELSE IF y.k = "inf" THEN y
           ELSE IF x.s = 0 THEN y
           ELSE IF y.s = 0 THEN x
           ELSE IF Top(x) - Top(y) > 64 THEN x
           ELSE IF Top(y) - Top(x) > 64 THEN y
           ELSE Value({Value({IF x.s = y.s
                              THEN Round(x.s, BAdd(mx, my), x.e - sx, FALSE)
                              ELSE IF BCmp(mx, my) = 0 THEN Zero
                              ELSE IF BCmp(mx, my) > 0
                                   THEN Round(x.s, BSub(mx, my), x.e - sx, FALSE)
                              ELSE Round(y.s, BSub(my, mx), x.e - sx, FALSE) :
                              mx \in {BShl(x.m, sx)}, my \in {BShl(y.m, sy)}}) :
                       sx \in {IF x.e > y.e THEN x.e - y.e ELSE 0},
                       sy \in {IF y.e > x.e THEN y.e - x.e ELSE 0}}) :
           x \in {a}, y \in {b}})

FSub(a, b) == FAdd(a, FNeg(b))

FMul(a, b) ==
    Value({IF x.k = "nan" \/ y.k = "nan" THEN NaN
           ELSE IF x.k = "inf" \/ y.k = "inf"
                THEN (IF x.s = 0 \/ y.s = 0 THEN NaN ELSE Inf(x.s * y.s))
           ELSE IF x.s = 0 \/ y.s = 0 THEN Zero
           ELSE Round(x.s * y.s, BMul(x.m, y.m), x.e + y.e, FALSE) :
           x \in {a}, y \in {b}})

\* numpy's true division: x/0 is an infinity and 0/0 is NaN
FDiv(a, b) ==
    Value({IF x.k = "nan" \/ y.k = "nan" THEN NaN
           ELSE IF x.k = "inf" THEN (IF y.k = "inf" THEN NaN
                                     ELSE Inf(x.s * (IF y.s < 0 THEN -1 ELSE 1)))
           ELSE IF y.k = "inf" THEN Zero
           ELSE IF y.s = 0 THEN (IF x.s = 0 THEN NaN ELSE Inf(x.s))
           ELSE IF x.s = 0 THEN Zero
           ELSE Value({Value({Round(x.s * y.s, res.q, x.e - y.e - n, res.inexact) :
                              res \in {BDivMod(BShl(x.m, n), y.m)}}) :
                       n \in {56 + BitLen(y.m) - BitLen(x.m)}}) :
           x \in {a}, y \in {b}})

\* the decimal literal n/d of the source (0.8, 1.5): the float nearest to it
Num(n, d) == FDiv(FInt(n), FInt(d))

\* |a| < |b| for two nonzero numbers
MagLt(a, b) ==
    IF Top(a) # Top(b) THEN Top(a) < Top(b)
    ELSE IF a.e < b.e THEN BCmp(a.m, BShl(b.m, b.e - a.e)) < 0
    ELSE BCmp(BShl(a.m, a.e - b.e), b.m) < 0

\* a < b; every comparison with NaN is false
FLt(a, b) ==
    Value({IF x.k = "nan" \/ y.k = "nan" THEN FALSE
           ELSE IF x.k = "inf" \/ y.k = "inf"
                THEN (IF x.k = "inf" /\ y.k = "inf" THEN x.s < y.s
                      ELSE IF x.k = "inf" THEN x.s < 0
                      ELSE y.s > 0)
           ELSE IF x.s # y.s THEN x.s < y.s
           ELSE IF x.s = 0 THEN FALSE
           ELSE IF x.s > 0 THEN MagLt(x, y)
           ELSE MagLt(y, x) :
           x \in {a}, y \in {b}})

FLe(a, b) ==
    Value({IF x.k = "nan" \/ y.k = "nan" THEN FALSE
           ELSE x = y \/ FLt(x, y) :
           x \in {a}, y \in {b}})

---------------------------------------------------------------------------
(* Sequences and tables.                                                   *)

None == [fn |-> "none"]

SeqsUpTo(S, n) == UNION {[1..m -> S] : m \in 0..n}

NonEmptySeqsUpTo(S, n) == UNION {[1..m -> S] : m \in 1..n}

RECURSIVE SumInts(_)
SumInts(s) == IF s = <<>> THEN 0 ELSE Head(s) + SumInts(Tail(s))

\* Series.sum() of an int64 column (the revenue and quantity literals of the
\* Pareto, validation and forecast datasets are integers): the plain sum,
\* 0 when empty
ColumnSum(rows, col) == SumInts([i \in 1..Len(rows) |-> rows[i][col]])

\* the positions of the rows that pass a filter, in the dataset's order
RECURSIVE PositionsUpTo(_, _)
PositionsUpTo(keep, n) ==
    IF n = 0 THEN <<>>
    ELSE IF keep[n] THEN Append(PositionsUpTo(keep, n - 1), n)
    ELSE PositionsUpTo(keep, n - 1)

Positions(keep) == PositionsUpTo(keep, Len(keep))

\* a set of integers as the ascending sequence groupby(...) emits its keys in
RECURSIVE SortedKeys(_)
SortedKeys(S) ==
    IF S = {} THEN <<>>
    ELSE LET m == CHOOSE x \in S : \A y \in S : x <= y
         IN  <<m>> \o SortedKeys(S \ {m})

---------------------------------------------------------------------------
(* KPI Engine (src/core/kpi.py).                                           *)

\* order_date.dt.to_period("M").astype(str): "YYYY-MM", a label whose
\* lexicographic order is the chronological one; modelled as YYYY*100 + MM
MonthLabel(date) == date.year * 100 + date.month

\* the float64 sum of a group as groupby(...).sum() accumulates it: over the
\* group's values in row order, with Kahan's compensation of the rounding
\* error of every addition; a compensation that is NaN is reset to 0
RECURSIVE KahanSum(_, _)
KahanSum(values, n) ==
    IF n = 0 THEN [sumx |-> Zero, compensation |-> Zero]
    ELSE Value({Value({Value({Value({
             [sumx         |-> t,
              compensation |-> IF IsNaN(c) THEN Zero ELSE c] :
             c \in {FSub(FSub(t, prev.sumx), y)}}) :
             t \in {FAdd(prev.sumx, y)}}) :
             y \in {FSub(values[n], prev.compensation)}}) :
             prev \in {KahanSum(values, n - 1)}})

\* Series.sum() of a float64 column of fewer than 8 values: the values are
\* added to 0.0 one after the other, in row order
RECURSIVE SeriesSum(_, _)
SeriesSum(values, n) ==
    IF n = 0 THEN Zero
    ELSE Value({FAdd(prev, values[n]) : prev \in {SeriesSum(values, n - 1)}})

\* the revenue of the rows that pass a filter, in the dataset's order
Revenues(rows, keep) ==
    Value({[k \in 1..Len(at) |-> rows[at[k]].revenue] : at \in {Positions(keep)}})

\* a sum that, like nunique, leaves out the rows whose order_id is missing
GroupRevenue_SkipMissingId(rows, label) ==
    Value({KahanSum(values, Len(values)).sumx : values \in {Revenues(rows,
        [i \in 1..Len(rows) |-> /\ MonthLabel(rows[i].order_date) = label
                                /\ rows[i].order_id # "NaN"])}})

\* revenue=("revenue", "sum") of one group
GroupRevenue(rows, label) ==
    Value({KahanSum(values, Len(values)).sumx : values \in {Revenues(rows,
        [i \in 1..Len(rows) |-> MonthLabel(rows[i].order_date) = label])}})

\* orders=("order_id", "nunique") of one group: a missing order_id is not counted
GroupOrders(rows, label) ==
    Cardinality({rows[i].order_id : i \in {j \in 1..Len(rows) :
                    /\ MonthLabel(rows[j].order_date) = label
                    /\ rows[j].order_id # "NaN"}})

monthly_kpis(rows) ==
    LET labels == SortedKeys({MonthLabel(rows[i].order_date) : i \in 1..Len(rows)})
    IN  [i \in 1..Len(labels) |->
            Value({[order_month |-> labels[i],
                    revenue     |-> revenue,
                    orders      |-> orders,
                    aov         |-> FDiv(revenue, orders)] :
                   revenue \in {GroupRevenue(rows, labels[i])},
                   orders \in {FInt(GroupOrders(rows, labels[i]))}})]

\* Series.shift(1): the value of the previous row, NaN in the first row
Shift(monthly, i, col) == IF i = 1 THEN NaN ELSE monthly[i - 1][col]

\* the working frame of revenue_decomposition before dropna()
DecompositionFrame(monthly) ==
    [i \in 1..Len(monthly) |->
        LET prev_revenue == Shift(monthly, i, "revenue")
            prev_orders  == Shift(monthly, i, "orders")
            prev_aov     == Shift(monthly, i, "aov")
        IN  [order_month    |-> monthly[i].order_month,
             revenue        |-> monthly[i].revenue,
             orders         |-> monthly[i].orders,
             aov            |-> monthly[i].aov,
             prev_revenue   |-> prev_revenue,
             prev_orders    |-> prev_orders,
             prev_aov       |-> prev_aov,
             revenue_change |-> FSub(monthly[i].revenue, prev_revenue),
             orders_effect  |-> FMul(FSub(monthly[i].orders, prev_orders), prev_aov),
             aov_effect     |-> FMul(FSub(monthly[i].aov, prev_aov), monthly[i].orders)]]

\* a decomposition that forgets dropna()
HasNaN_Never(r) == FALSE

\* DataFrame.dropna(): a row is dropped when any of its columns is NaN
\* (an infinity is not NaN)
HasNaN(r) ==
    \E c \in {"revenue", "orders", "aov", "prev_revenue", "prev_orders", "prev_aov",
              "revenue_change", "orders_effect", "aov_effect"} : IsNaN(r[c])

revenue_decomposition(monthly) ==
    LET frame == DecompositionFrame(monthly)
        kept  == Positions([i \in 1..Len(frame) |-> ~HasNaN(frame[i])])
    IN  [j \in 1..Len(kept) |->
            [order_month    |-> frame[kept[j]].order_month,
             revenue        |-> frame[kept[j]].revenue,
             revenue_change |-> frame[kept[j]].revenue_change,
             orders_effect  |-> frame[kept[j]].orders_effect,
             aov_effect     |-> frame[kept[j]].aov_effect]]

---------------------------------------------------------------------------
(* Pareto Engine (src/core/pareto.py).                                     *)

DefaultThreshold == Num(4, 5)

\* agg(revenue=("revenue", "sum")) of one group of the dimension dim
DimRevenue(rows, dim, key) ==
    SumInts([i \in 1..Len(rows) |-> IF rows[i][dim] = key THEN rows[i].revenue ELSE 0])

\* sort_values("revenue", ascending=False): the orders of the groups in which
\* revenue never increases; the default sort is not stable, so groups of
\* equal revenue may come out in any order
DescendingOrders(rows, dim) ==
    LET keys == {rows[i][dim] : i \in 1..Len(rows)}
        n    == Cardinality(keys)
    IN  {o \in [1..n -> keys] :
            /\ \A i, j \in 1..n : i # j => o[i] # o[j]
            /\ \A i \in 1..(n - 1) :
                   DimRevenue(rows, dim, o[i]) >= DimRevenue(rows, dim, o[i + 1])}

\* numpy's cumsum: the running sum of vals[1..i]
RECURSIVE RunningSum(_, _)
RunningSum(vals, i) ==
    IF i = 1 THEN vals[1] ELSE FAdd(RunningSum(vals, i - 1), vals[i])

\* a "cumulative" column that repeats the share instead of accumulating it
CumSum_NoAccumulation(shares) == shares

\* Series.cumsum(): NaN entries are skipped (summed as 0) and stay NaN
CumSum(shares) ==
    LET vals == [i \in 1..Len(shares) |-> IF IsNaN(shares[i]) THEN FInt(0) ELSE shares[i]]
    IN  [i \in 1..Len(shares) |->
            IF IsNaN(shares[i]) THEN NaN ELSE RunningSum(vals, i)]

\* a flag that leaves out a cumulative share equal to the threshold
ParetoFlag_Strict(cumulative_share, threshold) == FLt(cumulative_share, threshold)

\* cumulative_share <= threshold
ParetoFlag(cumulative_share, threshold) == FLe(cumulative_share, threshold)

\* the body shared by pareto_products and pareto_categories, for one outcome
\* of the sort
ParetoTable(rows, dim, order, threshold) ==
    LET revenue       == [i \in 1..Len(order) |-> FInt(DimRevenue(rows, dim, order[i]))]
        total_revenue == FInt(SumInts([i \in 1..Len(order) |->
                                          DimRevenue(rows, dim, order[i])]))
        revenue_share == [i \in 1..Len(order) |-> FDiv(revenue[i], total_revenue)]
        cumulative    == CumSum(revenue_share)
    IN  [i \in 1..Len(order) |->
            [key              |-> order[i],
             revenue          |-> revenue[i],
             revenue_share    |-> revenue_share[i],
             cumulative_share |-> cumulative[i],
             pareto_flag      |-> ParetoFlag(cumulative[i], threshold)]]

pareto_products(rows, order, threshold) ==
    ParetoTable(rows, "product_name", order, threshold)

pareto_categories(rows, order, threshold) ==
    ParetoTable(rows, "category", order, threshold)

---------------------------------------------------------------------------
(* Validator (src/core/validation.py).                                     *)

REQUIRED_COLUMNS == {"order_id", "order_date", "product_name", "category",
                     "region", "quantity", "unit_price", "revenue"}

KeyError(key) == [raised |-> "KeyError", key |-> key]

\* set(REQUIRED_COLUMNS) - set(df.columns); the order of the list is that of
\* a set, so the list is modelled as the set
validate_schema(cols) == REQUIRED_COLUMNS \ cols

\* the columns validate_business_rules reads, in the order it reads them:
\* df[c] raises KeyError(c) for the first of them the dataset lacks
BusinessRuleReads == <<"quantity", "unit_price", "revenue">>

FirstMissing(reads, cols) ==
    LET missing == {i \in 1..Len(reads) : reads[i] \notin cols}
    IN  IF missing = {} THEN 0 ELSE CHOOSE i \in missing : \A j \in missing : i <= j

\* the three row filters; a filtered frame is modelled as the positions of
\* the rows it keeps
validate_business_rules(rows, cols) ==
    LET m == FirstMissing(BusinessRuleReads, cols)
    IN  IF m # 0 THEN KeyError(BusinessRuleReads[m])
        ELSE [raised |-> "none",
              invalid_quantity |->
                  Positions([i \in 1..Len(rows) |-> rows[i].quantity <= 0]),
              invalid_price |->
                  Positions([i \in 1..Len(rows) |-> rows[i].unit_price <= 0]),
              revenue_mismatch |->
                  Positions([i \in 1..Len(rows) |->
                      Abs(rows[i].revenue - rows[i].quantity * rows[i].unit_price) > 1])]

\* the values of a column in ascending order
RECURSIVE SortInts(_)
SortInts(s) ==
    IF s = <<>> THEN <<>>
    ELSE LET i == CHOOSE i \in 1..Len(s) : \A j \in 1..Len(s) : s[i] <= s[j]
         IN  <<s[i]>> \o SortInts(SubSeq(s, 1, i - 1) \o SubSeq(s, i + 1, Len(s)))

\* Series.quantile(qn/qd), linear interpolation: with the n values sorted,
\* the value at position q*(n-1), interpolated between its two neighbours;
\* NaN for an empty column
Quantile(values, qn, qd) ==
    LET x    == SortInts(values)
        n    == Len(x)
        lo   == (qn * (n - 1)) \div qd
        frac == Num((qn * (n - 1)) % qd, qd)
    IN  IF n = 0 THEN NaN
        ELSE IF lo + 1 = n THEN FInt(x[n])
        ELSE FAdd(FInt(x[lo + 1]), FMul(FInt(x[lo + 2] - x[lo + 1]), frac))

\* a fence test that also returns the rows lying on a fence
IsOutlier_Inclusive(revenue, lower, upper) ==
    FLe(revenue, lower) \/ FLe(upper, revenue)

\* (df["revenue"] < lower) | (df["revenue"] > upper)
IsOutlier(revenue, lower, upper) ==
    FLt(revenue, lower) \/ FLt(upper, revenue)

detect_revenue_outliers(rows, cols) ==
    IF "revenue" \notin cols THEN KeyError("revenue")
    ELSE LET values == [i \in 1..Len(rows) |-> rows[i].revenue]
             q1     == Quantile(values, 1, 4)
             q3     == Quantile(values, 3, 4)
             iqr    == FSub(q3, q1)
             lower  == FSub(q1, FMul(Num(3, 2), iqr))
             upper  == FAdd(q3, FMul(Num(3, 2), iqr))
         IN  [raised |-> "none",
              rows   |-> Positions([i \in 1..Len(rows) |->
                                       IsOutlier(FInt(rows[i].revenue), lower, upper)])]

\* the three checks in sequence; an exception raised by one of them is not
\* caught and ends the call
run_full_validation(rows, cols) ==
    LET missing_columns      == validate_schema(cols)
        business_rule_issues == validate_business_rules(rows, cols)
        outliers             == detect_revenue_outliers(rows, cols)
    IN  IF business_rule_issues.raised # "none" THEN business_rule_issues
        ELSE IF outliers.raised # "none" THEN outliers
        ELSE [raised               |-> "none",
              missing_columns      |-> missing_columns,
              business_rule_issues |-> business_rule_issues,
              outliers             |-> outliers.rows]

---------------------------------------------------------------------------
(* Forecaster (src/core/forecasting.py).                                   *)

\* order_date.dt.to_period("M").dt.to_timestamp(): the first day of the month
MonthStart(date) == [year |-> date.year, month |-> date.month, day |-> 1]

\* the position of a month on the time line
MonthIndex(date) == date.year * 12 + (date.month - 1)

\* the months of the dataset in chronological order
RECURSIVE SortedMonths(_)
SortedMonths(S) ==
    IF S = {} THEN <<>>
    ELSE LET m == CHOOSE x \in S : \A y \in S : MonthIndex(x) <= MonthIndex(y)
         IN  <<m>> \o SortedMonths(S \ {m})

prepare_monthly_series(rows) ==
    LET months == SortedMonths({MonthStart(rows[i].order_date) : i \in 1..Len(rows)})
    IN  [i \in 1..Len(months) |->
            [order_month |-> months[i],
             revenue     |-> SumInts([j \in 1..Len(rows) |->
                                 IF MonthStart(rows[j].order_date) = months[i]
                                 THEN rows[j].revenue ELSE 0]),
             month       |-> months[i].month,
             year        |-> months[i].year,
             trend       |-> i - 1]]

Max(S) == CHOOSE x \in S : \A y \in S : y <= x

Min(S) == CHOOSE x \in S : \A y \in S : x <= y

\* the fitted forest, as far as its predictions are determined: a forest of
\* regression trees predicts an average of training targets, a value between
\* the least and the greatest observed revenue
train_forecast_model(series) ==
    LET y == {series[i].revenue : i \in 1..Len(series)}
    IN  [lo |-> Min(y), hi |-> Max(y)]

\* date + DateOffset(months=i) without carrying into the year
AddMonths_NoYearCarry(date, i) ==
    [year |-> date.year, month |-> ((date.month - 1 + i) % 12) + 1, day |-> date.day]

\* date + pd.DateOffset(months=i) for a first-of-month date: whole years of
\* the offset are added to the year, the rest to the month, and a month past
\* December carries into the next year
AddMonths(date, i) ==
    LET years  == i \div 12
        months == i % 12
        month  == date.month + months
    IN  IF month > 12
        THEN [year |-> date.year + years + 1, month |-> month - 12, day |-> date.day]
        ELSE [year |-> date.year + years, month |-> month, day |-> date.day]

forecast_future(model, series, periods) ==
    LET last_date  == CHOOSE d \in {series[k].order_month : k \in 1..Len(series)} :
                          \A k \in 1..Len(series) :
                              MonthIndex(series[k].order_month) <= MonthIndex(d)
        last_trend == Max({series[k].trend : k \in 1..Len(series)})
    IN  [i \in 1..periods |->
            LET future_date == AddMonths(last_date, i)
            IN  [order_month      |-> future_date,
                 month            |-> future_date.month,
                 year             |-> future_date.year,
                 trend            |-> last_trend + i,
                 forecast_revenue |-> model]]

---------------------------------------------------------------------------
(* Scenario Simulator (src/core/scenario.py).                              *)

ZeroDivisionError == [raised |-> "ZeroDivisionError"]

\* a simulation whose discount factor is the discount itself, not 1 - discount
simulate_scenario_DiscountFraction(baseline, price_change_pct, volume_change_pct, discount_pct) ==
    LET simulated == FMul(FMul(FMul(FInt(baseline.val),
                                    FAdd(FInt(1), FDiv(FInt(price_change_pct), FInt(100)))),
                               FAdd(FInt(1), FDiv(FInt(volume_change_pct), FInt(100)))),
                          FDiv(FInt(discount_pct), FInt(100)))
        delta     == FSub(simulated, FInt(baseline.val))
    IN  IF baseline.kind = "python" /\ baseline.val = 0 THEN ZeroDivisionError
        ELSE [raised            |-> "none",
              simulated_revenue |-> simulated,
              absolute_change   |-> delta,
              percentage_change |-> FMul(FDiv(delta, FInt(baseline.val)), FInt(100))]

\* baseline is a Python number (kind "python": dividing by zero raises) or a
\* numpy float64 such as DataFrame.sum() returns (kind "numpy": 0/0 is NaN)
simulate_scenario(baseline, price_change_pct, volume_change_pct, discount_pct) ==
    LET baseline_revenue  == FInt(baseline.val)
        price_factor      == FAdd(FInt(1), FDiv(FInt(price_change_pct), FInt(100)))
        volume_factor     == FAdd(FInt(1), FDiv(FInt(volume_change_pct), FInt(100)))
        discount_factor   == FSub(FInt(1), FDiv(FInt(discount_pct), FInt(100)))
        simulated_revenue == FMul(FMul(FMul(baseline_revenue, price_factor),
                                       volume_factor), discount_factor)
        delta             == FSub(simulated_revenue, baseline_revenue)
    IN  IF baseline.kind = "python" /\ baseline.val = 0 THEN ZeroDivisionError
        ELSE [raised            |-> "none",
              simulated_revenue |-> simulated_revenue,
              absolute_change   |-> delta,
              percentage_change |-> FMul(FDiv(delta, baseline_revenue), FInt(100))]

\* dict.get(key, default)
Get(s, key, default) == IF key \in DOMAIN s THEN s[key] ELSE default

OutcomeKeys == {"simulated_revenue", "absolute_change", "percentage_change"}

\* the call batch_simulation makes for one scenario
ScenarioCall(baseline, s) ==
    simulate_scenario(baseline,
                      Get(s, "price_change", 0),
                      Get(s, "volume_change", 0),
                      Get(s, "discount", 0))

\* the outcome of one scenario after outcome.update(s): the three results,
\* then the scenario's own entries
Outcome(baseline, s) ==
    LET outcome == ScenarioCall(baseline, s)
    IN  [c \in OutcomeKeys \cup DOMAIN s |->
            IF c \in DOMAIN s THEN FInt(s[c]) ELSE outcome[c]]

\* an annotation that writes the defaults into the result as well
Annotated_WithDefaults(baseline, s, cols) ==
    LET outcome == Outcome(baseline, s)
    IN  [c \in cols |-> IF c \in DOMAIN outcome THEN outcome[c] ELSE FInt(0)]

\* one row of pd.DataFrame(results): a column the row's dict lacks is NaN
Annotated(baseline, s, cols) ==
    LET outcome == Outcome(baseline, s)
    IN  [c \in cols |-> IF c \in DOMAIN outcome THEN outcome[c] ELSE NaN]

\* the loop raises at the first scenario when simulate_scenario does;
\* pd.DataFrame(results) has the union of the dicts' keys as its columns
batch_simulation(baseline, scenarios) ==
    LET cols == UNION {OutcomeKeys \cup DOMAIN scenarios[i] : i \in 1..Len(scenarios)}
    IN  IF \E i \in 1..Len(scenarios) : ScenarioCall(baseline, scenarios[i]).raised # "none"
        THEN ZeroDivisionError
        ELSE [raised  |-> "none",
              columns |-> cols,
              rows    |-> [i \in 1..Len(scenarios) |-> Annotated(baseline, scenarios[i], cols)]]

---------------------------------------------------------------------------
(* The datasets and the calls.                                             *)

KpiRevenues == {Num(l[1], l[2]) : l \in KpiRevenueLiterals}

KpiRows == [order_id : OrderIds, order_date : KpiDates, product_name : {"P1"},
            category : {"C1"}, region : {"North"}, quantity : {1},
            unit_price : {3}, revenue : KpiRevenues]

DecimalRevenues == {Num(l[1], l[2]) : l \in DecimalRevenueLiterals}

\* order lines with a decimal revenue, and one without an order_id
KpiDecimalRows ==
    [order_id : {"A1"}, order_date : KpiDates, product_name : {"P1"},
     category : {"C1"}, region : {"North"}, quantity : {1},
     unit_price : {3}, revenue : DecimalRevenues]
    \cup {[order_id |-> "NaN", order_date |-> [year |-> 2024, month |-> 11, day |-> 30],
           product_name |-> "P1", category |-> "C1", region |-> "North",
           quantity |-> 1, unit_price |-> 3, revenue |-> Num(2, 10)]}

InitKpi ==
    /\ df \in NonEmptySeqsUpTo(KpiRows, MaxKpiRows)
    /\ columns = REQUIRED_COLUMNS
    /\ call = None
    /\ result = None

MonthlyKpis ==
    /\ call = None
    /\ call' = [fn |-> "monthly_kpis"]
    /\ result' = monthly_kpis(df)
    /\ UNCHANGED <<df, columns>>

RevenueDecomposition ==
    /\ call.fn = "monthly_kpis"
    /\ call' = [fn |-> "revenue_decomposition", monthly |-> result]
    /\ result' = revenue_decomposition(result)
    /\ UNCHANGED <<df, columns>>

NextKpi == MonthlyKpis \/ RevenueDecomposition

SpecKpi == InitKpi /\ [][NextKpi]_vars

InitKpiDecimal ==
    /\ df \in NonEmptySeqsUpTo(KpiDecimalRows, MaxKpiRows)
    /\ columns = REQUIRED_COLUMNS
    /\ call = None
    /\ result = None

SpecKpiDecimal == InitKpiDecimal /\ [][NextKpi]_vars

\* every product belongs to one category
CategoryOf(p) == IF p = "P3" THEN "C2" ELSE "C1"

ParetoRows == {[order_id |-> "A1", order_date |-> [year |-> 2024, month |-> 12, day |-> 1],
                product_name |-> item[1], category |-> CategoryOf(item[1]),
                region |-> "North", quantity |-> 1, unit_price |-> 3,
                revenue |-> item[2]] :
               item \in ParetoItems}

\* the thresholds as the source writes them (0.5, 0.8, 1.0): numerator and
\* denominator of the decimal literal
ThresholdLiterals == {<<1, 2>>, <<4, 5>>, <<1, 1>>}

Thresholds == {Num(t[1], t[2]) : t \in ThresholdLiterals}

InitPareto ==
    /\ df \in SeqsUpTo(ParetoRows, MaxParetoRows)
    /\ columns = REQUIRED_COLUMNS
    /\ call = None
    /\ result = None

ParetoProducts ==
    /\ call = None
    /\ \E threshold \in Thresholds, order \in DescendingOrders(df, "product_name") :
          /\ call' = [fn |-> "pareto_products", dim |-> "product_name",
                      threshold |-> threshold]
          /\ result' = pareto_products(df, order, threshold)
    /\ UNCHANGED <<df, columns>>

ParetoCategories ==
    /\ call = None
    /\ \E threshold \in Thresholds, order \in DescendingOrders(df, "category") :
          /\ call' = [fn |-> "pareto_categories", dim |-> "category",
                      threshold |-> threshold]
          /\ result' = pareto_categories(df, order, threshold)
    /\ UNCHANGED <<df, columns>>

NextPareto == ParetoProducts \/ ParetoCategories

SpecPareto == InitPareto /\ [][NextPareto]_vars

ValidationRows ==
    {[order_id |-> "A1", order_date |-> [year |-> 2024, month |-> 12, day |-> 1],
      product_name |-> "P1", category |-> "C1", region |-> "North",
      quantity |-> r[1], unit_price |-> r[2], revenue |-> r[3]] :
     r \in {<<1, 4, 4>>, <<2, 4, 8>>, <<0, 4, 0>>, <<1, 0, 4>>, <<1, 4, 5>>, <<5, 4, 20>>}}

MissingCandidates == {"quantity", "revenue", "region"}

InitValidation ==
    /\ df \in SeqsUpTo(ValidationRows, MaxValidationRows)
    /\ columns \in {REQUIRED_COLUMNS \ missing : missing \in SUBSET MissingCandidates}
    /\ call = None
    /\ result = None

RunFullValidation ==
    /\ call = None
    /\ call' = [fn |-> "run_full_validation"]
    /\ result' = run_full_validation(df, columns)
    /\ UNCHANGED <<df, columns>>

DetectRevenueOutliers ==
    /\ call = None
    /\ call' = [fn |-> "detect_revenue_outliers"]
    /\ result' = detect_revenue_outliers(df, columns)
    /\ UNCHANGED <<df, columns>>

NextValidation == RunFullValidation \/ DetectRevenueOutliers

SpecValidation == InitValidation /\ [][NextValidation]_vars

ForecastDates == {[year |-> 2024, month |-> 10, day |-> 15],
                  [year |-> 2024, month |-> 12, day |-> 1],
                  [year |-> 2024, month |-> 12, day |-> 31],
                  [year |-> 2025, month |-> 1, day |-> 10],
                  [year |-> 2025, month |-> 6, day |-> 5]}

ForecastRows == [order_id : {"A1"}, order_date : ForecastDates, product_name : {"P1"},
                 category : {"C1"}, region : {"North"}, quantity : {1},
                 unit_price : {3}, revenue : {2, 5}]

\* fitting needs at least one row: the datasets are not empty
InitForecast ==
    /\ df \in NonEmptySeqsUpTo(ForecastRows, MaxForecastRows)
    /\ columns = REQUIRED_COLUMNS
    /\ call = None
    /\ result = None

PrepareMonthlySeries ==
    /\ call = None
    /\ call' = [fn |-> "prepare_monthly_series"]
    /\ result' = prepare_monthly_series(df)
    /\ UNCHANGED <<df, columns>>

\* the model is the one train_forecast_model fits to the series; fitting
\* raises on an empty series, so there is no model to forecast with then
ForecastFuture ==
    /\ call.fn = "prepare_monthly_series"
    /\ result # <<>>
    /\ \E periods \in 1..MaxPeriods :
          /\ call' = [fn |-> "forecast_future", series |-> result, periods |-> periods]
          /\ result' = forecast_future(train_forecast_model(result), result, periods)
    /\ UNCHANGED <<df, columns>>

NextForecast == PrepareMonthlySeries \/ ForecastFuture

SpecForecast == InitForecast /\ [][NextForecast]_vars

Baselines == [kind : {"python", "numpy"}, val : {-50, 0, 200, 100000}]

BatchBaselines == [kind : {"python", "numpy"}, val : {0, 200}]

Percentages == {-10, 0, 5, 10}

ScenarioKeys == {"price_change", "volume_change", "discount"}

\* a scenario specification: a dict that gives some of the three percentages
\* (10 for each one it gives, or an explicit 0)
ScenarioSpecs ==
    {[key \in keys |-> 10] : keys \in SUBSET ScenarioKeys}
        \cup {[price_change |-> 0], [volume_change |-> 5, discount |-> 0]}

InitScenario ==
    /\ df = <<>>
    /\ columns = REQUIRED_COLUMNS
    /\ call = None
    /\ result = None

SimulateScenario ==
    /\ call = None
    /\ \E baseline \in Baselines, price \in Percentages, volume \in Percentages,
          discount \in Percentages :
          /\ call' = [fn |-> "simulate_scenario", baseline |-> baseline,
                      price_change_pct |-> price, volume_change_pct |-> volume,
                      discount_pct |-> discount]
          /\ result' = simulate_scenario(baseline, price, volume, discount)
    /\ UNCHANGED <<df, columns>>

BatchSimulation ==
    /\ call = None
    /\ \E baseline \in BatchBaselines, scenarios \in SeqsUpTo(ScenarioSpecs, MaxScenarios) :
          /\ call' = [fn |-> "batch_simulation", baseline |-> baseline,
                      scenarios |-> scenarios]
          /\ result' = batch_simulation(baseline, scenarios)
    /\ UNCHANGED <<df, columns>>

NextScenario == SimulateScenario \/ BatchSimulation

SpecScenario == InitScenario /\ [][NextScenario]_vars

---------------------------------------------------------------------------
(* KPI Engine: the claims.                                                 *)

Tolerance == Num(1, 1000000000)

\* |a - b| <= 10^-9: equality up to floating-point rounding
Approx(a, b) == FLe(FSub(a, b), Tolerance) /\ FLe(FSub(b, a), Tolerance)

\* sum(monthly_kpis(df).revenue)
MonthlyRevenueSum == SeriesSum([i \in 1..Len(result) |-> result[i].revenue], Len(result))

\* df.revenue.sum()
DatasetRevenueSum == SeriesSum([i \in 1..Len(df) |-> df[i].revenue], Len(df))

\* a float64 that is a whole number
IsInteger(x) == x.k = "num" /\ (x.s = 0 \/ x.e >= 0)

\* C1 as stated: for every non-empty dataset, the revenue column of
\* monthly_kpis(dataset) sums to exactly the sum of revenue over all rows of
\* the dataset.
C1_Original ==
    call.fn = "monthly_kpis" => MonthlyRevenueSum = DatasetRevenueSum

\* C1 as amended: the revenue column of monthly_kpis(dataset) sums to the sum
\* of revenue over all rows of the dataset up to floating-point rounding, no
\* row's revenue being lost or counted twice; the two sums are equal exactly
\* when every revenue of the dataset is a whole number.
C1_MonthlyRevenueConserved ==
    call.fn = "monthly_kpis" =>
        /\ Approx(MonthlyRevenueSum, DatasetRevenueSum)
        /\ (\A i \in 1..Len(df) : IsInteger(df[i].revenue)) =>
               MonthlyRevenueSum = DatasetRevenueSum

\* three rows with a decimal revenue, one of them without an order_id, over
\* two months, the rows of the first month not adjacent: the sums by month
\* and the sum by row round differently
C1_Witness ==
    /\ call.fn = "monthly_kpis"
    /\ Len(df) = 3
    /\ Len(result) = 2
    /\ \A i \in 1..3 : ~IsInteger(df[i].revenue)
    /\ \E i \in 1..3 : df[i].order_id = "NaN"
    /\ MonthLabel(df[1].order_date) = MonthLabel(df[3].order_date)
    /\ MonthLabel(df[1].order_date) # MonthLabel(df[2].order_date)
    /\ MonthlyRevenueSum # DatasetRevenueSum

\* C2: every row revenue_decomposition outputs has
\* revenue_change = orders_effect + aov_effect, up to floating-point rounding.
C2_DecompositionAdditive ==
    call.fn = "revenue_decomposition" =>
        \A j \in 1..Len(result) :
            Approx(result[j].revenue_change,
                   FAdd(result[j].orders_effect, result[j].aov_effect))

\* the failing input of C2: a month with revenue but no order_id, then a
\* month with an order; the row of the second month has infinite effects
C2_FailingInput ==
    /\ call.fn = "revenue_decomposition"
    /\ Len(call.monthly) = 2
    /\ call.monthly[1].orders = FInt(0)
    /\ call.monthly[1].aov = Inf(1)
    /\ Len(result) = 1
    /\ result[1].orders_effect = Inf(1)
    /\ result[1].aov_effect = Inf(-1)

\* C10 as stated: for a monthly series of n >= 1 rows, revenue_decomposition
\* outputs exactly n - 1 rows, one for every month after the first, in input
\* order, also when some month has zero distinct orders.
C10_Original ==
    call.fn = "revenue_decomposition" =>
        /\ Len(result) = Len(call.monthly) - 1
        /\ \A j \in 1..Len(result) : result[j].order_month = call.monthly[j + 1].order_month

\* C10 as amended: revenue_decomposition outputs at most n - 1 rows, in input
\* order, and none for the first month; it outputs exactly n - 1 rows, one for
\* every month after the first, when every month has at least one distinct
\* order; a month with zero distinct orders gets no row, and neither does the
\* month after a month with zero orders and zero revenue.
C10_RowsAfterFirstMonth ==
    call.fn = "revenue_decomposition" =>
        LET monthly == call.monthly
            n       == Len(monthly)
        IN  /\ \A j \in 1..Len(result) :
                   \E i \in 2..n : /\ result[j].order_month = monthly[i].order_month
                                   /\ result[j].revenue = monthly[i].revenue
                                   /\ monthly[i].orders.s > 0
            /\ \A j \in 1..(Len(result) - 1) :
                   result[j].order_month < result[j + 1].order_month
            /\ (\A i \in 1..n : monthly[i].orders.s > 0) =>
                   /\ Len(result) = n - 1
                   /\ \A j \in 1..(n - 1) :
                          result[j].order_month = monthly[j + 1].order_month
            /\ \A i \in 2..n :
                   (\E j \in 1..Len(result) : result[j].order_month = monthly[i].order_month)
                   <=> /\ monthly[i].orders.s > 0
                       /\ ~(monthly[i - 1].orders.s = 0 /\ monthly[i - 1].revenue.s = 0)

\* three months with orders: two rows
C10_Witness ==
    /\ call.fn = "revenue_decomposition"
    /\ Len(call.monthly) = 3
    /\ \A i \in 1..3 : call.monthly[i].orders.s > 0
    /\ Len(result) = 2
    /\ result[1].order_month = 202412
    /\ result[2].order_month = 202501

---------------------------------------------------------------------------
(* Pareto Engine: the claims.                                              *)

IsPareto == call.fn \in {"pareto_products", "pareto_categories"}

NonDecreasing ==
    \A i \in 1..(Len(result) - 1) :
        FLe(result[i].cumulative_share, result[i + 1].cumulative_share)

\* C3 as stated: for every dataset, the last cumulative_share is 1.0 and
\* cumulative_share never decreases down the table.
C3_Original ==
    (IsPareto /\ Len(result) > 0) =>
        /\ result[Len(result)].cumulative_share = FInt(1)
        /\ NonDecreasing

\* C3 as amended: for every dataset whose total revenue is positive and in
\* which no group's summed revenue is negative, the last cumulative_share is
\* 1.0 up to floating-point rounding (within 10^-9 of it, and not always
\* 1.0 itself) and cumulative_share never decreases down the table.
C3_CumulativeShare ==
    (/\ IsPareto
     /\ Len(result) > 0
     /\ ColumnSum(df, "revenue") > 0
     /\ \A i \in 1..Len(result) : result[i].revenue.s >= 0)
    => /\ Approx(result[Len(result)].cumulative_share, FInt(1))
       /\ NonDecreasing

\* three groups with revenues 4, 1 and 1: the shares 4/6, 1/6 and 1/6 add up
\* to the float just below 1.0
C3_Witness ==
    /\ call.fn = "pareto_products"
    /\ Len(result) = 3
    /\ result[1].revenue = FInt(4)
    /\ result[2].revenue = FInt(1)
    /\ result[3].revenue = FInt(1)
    /\ FLt(result[3].cumulative_share, FInt(1))
    /\ Approx(result[3].cumulative_share, FInt(1))

\* the least k whose cumulative share reaches the threshold (0 if none does)
MinimalPrefix(table, threshold) ==
    LET reach == {k \in 1..Len(table) : FLe(threshold, table[k].cumulative_share)}
    IN  IF reach = {} THEN 0 ELSE CHOOSE k \in reach : \A m \in reach : k <= m

\* C7 as stated: with positive total revenue, the rows flagged are exactly the
\* minimal prefix of the ranking whose cumulative share reaches the threshold;
\* with the default threshold at least one row is flagged.
C7_Original ==
    (IsPareto /\ ColumnSum(df, "revenue") > 0) =>
        /\ \A i \in 1..Len(result) :
               result[i].pareto_flag <=> i <= MinimalPrefix(result, call.threshold)
        /\ call.threshold = DefaultThreshold =>
               \E i \in 1..Len(result) : result[i].pareto_flag

\* the revenue of the first i groups of the ranking
PrefixRevenue(i) == SumInts([k \in 1..i |-> DimRevenue(df, call.dim, result[k].key)])

\* the decimal literal of the threshold of the call
ThresholdValue == [t \in ThresholdLiterals |-> Num(t[1], t[2])]

ThresholdLiteral == CHOOSE t \in ThresholdLiterals : ThresholdValue[t] = call.threshold

\* C7 as amended: with positive total revenue, the rows flagged are exactly
\* those whose cumulative_share is at most the threshold.  A row up to which
\* the ranking holds less than the threshold's share of total revenue is
\* flagged, a row up to which it holds more is not: the row at which the
\* share first passes the threshold is not flagged, and no row is when the
\* first group alone holds more than the threshold.  Where the share is the
\* threshold exactly, the rounding of the running sum decides.
C7_FlagsWithinThreshold ==
    (IsPareto /\ ColumnSum(df, "revenue") > 0) =>
        LET tn    == ThresholdLiteral[1]
            td    == ThresholdLiteral[2]
            total == ColumnSum(df, "revenue")
        IN  /\ \A i \in 1..Len(result) :
                   /\ result[i].pareto_flag
                          <=> FLe(result[i].cumulative_share, call.threshold)
                   /\ td * PrefixRevenue(i) < tn * total => result[i].pareto_flag
                   /\ td * PrefixRevenue(i) > tn * total => ~result[i].pareto_flag
            /\ (Len(result) > 0
                /\ td * PrefixRevenue(1) > tn * total
                /\ \A i \in 1..Len(result) : result[i].revenue.s >= 0)
               => \A i \in 1..Len(result) : ~result[i].pareto_flag

\* default threshold, two groups with 4/5 and 1/5 of the revenue: the first is
\* flagged, its cumulative share being the threshold exactly, the second not
C7_Witness ==
    /\ IsPareto
    /\ call.threshold = DefaultThreshold
    /\ Len(result) = 2
    /\ result[1].cumulative_share = DefaultThreshold
    /\ result[1].pareto_flag
    /\ ~result[2].pareto_flag

---------------------------------------------------------------------------
(* Validator: the claims.                                                  *)

\* the failing input of C5: a dataset without the quantity column
C5_FailingInput ==
    /\ call.fn = "run_full_validation"
    /\ columns = REQUIRED_COLUMNS \ {"quantity"}
    /\ Len(df) > 0
    /\ result = KeyError("quantity")

\* C5: for any dataset, also one that lacks required columns,
\* run_full_validation does not raise: it returns a report with
\* missing_columns, business_rule_issues and outliers.
C5_AlwaysReports ==
    call.fn = "run_full_validation" =>
        /\ result.raised = "none"
        /\ result.missing_columns = REQUIRED_COLUMNS \ columns

\* four times the linear-interpolation quantile qn/4 of the revenue column
QuantileTimes4(qn) ==
    LET x  == SortInts([i \in 1..Len(df) |-> df[i].revenue])
        lo == (qn * (Len(x) - 1)) \div 4
        r  == (qn * (Len(x) - 1)) % 4
    IN  IF r = 0 THEN 4 * x[lo + 1]
        ELSE (4 - r) * x[lo + 1] + r * x[lo + 2]

\* eight times the fences Q1 - 1.5*IQR and Q3 + 1.5*IQR
LowerFenceTimes8 == 5 * QuantileTimes4(1) - 3 * QuantileTimes4(3)

UpperFenceTimes8 == 5 * QuantileTimes4(3) - 3 * QuantileTimes4(1)

\* C9: detect_revenue_outliers returns exactly the rows whose revenue is
\* strictly below Q1 - 1.5*IQR or strictly above Q3 + 1.5*IQR; a row on a
\* fence is not returned, and identical revenues yield the empty set.
C9_OutliersStrictlyOutsideFence ==
    (call.fn = "detect_revenue_outliers" /\ "revenue" \in columns) =>
        /\ result.raised = "none"
        /\ \A i \in 1..Len(df) :
               (\E j \in 1..Len(result.rows) : result.rows[j] = i)
               <=> \/ 8 * df[i].revenue < LowerFenceTimes8
                   \/ 8 * df[i].revenue > UpperFenceTimes8
        /\ \A j \in 1..(Len(result.rows) - 1) : result.rows[j] < result.rows[j + 1]
        /\ (\A i, j \in 1..Len(df) : df[i].revenue = df[j].revenue) => result.rows = <<>>

\* of four rows with different revenues, the one above the upper fence is
\* returned
C9_Witness ==
    /\ call.fn = "detect_revenue_outliers"
    /\ "revenue" \in columns
    /\ Len(df) = 4
    /\ \A i, j \in 1..4 : i # j => df[i].revenue # df[j].revenue
    /\ Len(result.rows) = 1
    /\ 8 * df[result.rows[1]].revenue > UpperFenceTimes8

---------------------------------------------------------------------------
(* Forecaster: the claims.                                                 *)

\* C6: forecast_future with periods = n >= 1 returns exactly n rows; the
\* i-th has trend = (maximum observed trend) + i, and its month and year are
\* those of the calendar month i months after the last observed month.
C6_ForecastRows ==
    call.fn = "forecast_future" =>
        LET series == call.series
            last   == Max({MonthIndex(series[k].order_month) : k \in 1..Len(series)})
            trend  == Max({series[k].trend : k \in 1..Len(series)})
        IN  /\ Len(result) = call.periods
            /\ \A i \in 1..Len(result) :
                   /\ result[i].trend = trend + i
                   /\ result[i].month \in 1..12
                   /\ result[i].year * 12 + (result[i].month - 1) = last + i
                   /\ result[i].order_month.month = result[i].month
                   /\ result[i].order_month.year = result[i].year
            /\ \A i \in 1..(Len(result) - 1) :
                   /\ result[i + 1].trend = result[i].trend + 1
                   /\ result[i].month = 12 =>
                          (result[i + 1].month = 1 /\ result[i + 1].year = result[i].year + 1)
                   /\ result[i].month < 12 =>
                          (result[i + 1].month = result[i].month + 1
                           /\ result[i + 1].year = result[i].year)

\* last observed month December 2024, six periods: January to June 2025
C6_Witness ==
    /\ call.fn = "forecast_future"
    /\ call.periods = 6
    /\ Len(call.series) = 2
    /\ call.series[2].order_month = [year |-> 2024, month |-> 12, day |-> 1]
    /\ \A i \in 1..6 : result[i].year = 2025 /\ result[i].month = i /\ result[i].trend = 1 + i

---------------------------------------------------------------------------
(* Scenario Simulator: the claims.                                         *)

IsIdentityScenario ==
    /\ call.fn = "simulate_scenario"
    /\ call.price_change_pct = 0
    /\ call.volume_change_pct = 0
    /\ call.discount_pct = 0

Unchanged(R) ==
    [raised |-> "none", simulated_revenue |-> FInt(R),
     absolute_change |-> FInt(0), percentage_change |-> FInt(0)]

\* C4 as stated: for any baseline R, simulate_scenario(R, 0, 0, 0) returns
\* simulated_revenue = R, absolute_change = 0 and percentage_change = 0.
C4_Original == IsIdentityScenario => result = Unchanged(call.baseline.val)

\* C4 as amended: for any baseline R other than zero,
\* simulate_scenario(R, 0, 0, 0) returns simulated_revenue = R,
\* absolute_change = 0 and percentage_change = 0.
C4_IdentityScenario ==
    (IsIdentityScenario /\ call.baseline.val # 0) => result = Unchanged(call.baseline.val)

C4_Witness ==
    /\ IsIdentityScenario
    /\ call.baseline.val = 100000
    /\ result.raised = "none"
    /\ result.simulated_revenue = FInt(100000)

\* the i-th result has the three outputs simulate_scenario gives for the
\* i-th scenario, an omitted percentage taken as 0
SameOutputs(i) ==
    LET s        == call.scenarios[i]
        expected == simulate_scenario(call.baseline, Get(s, "price_change", 0),
                                      Get(s, "volume_change", 0), Get(s, "discount", 0))
    IN  /\ expected.raised = "none"
        /\ \A c \in OutcomeKeys : c \in result.columns /\ result.rows[i][c] = expected[c]

\* C8 as stated: batch_simulation returns one result per scenario in input
\* order, with the outputs of simulate_scenario, and each result carries its
\* scenario's parameters, 0 being recorded for an omitted percentage.
C8_Original ==
    call.fn = "batch_simulation" =>
        /\ result.raised = "none"
        /\ Len(result.rows) = Len(call.scenarios)
        /\ \A i \in 1..Len(call.scenarios) :
               /\ SameOutputs(i)
               /\ \A key \in ScenarioKeys :
                      /\ key \in result.columns
                      /\ result.rows[i][key] = FInt(Get(call.scenarios[i], key, 0))

\* C8 as amended: for any baseline other than zero, batch_simulation returns
\* one result per scenario in input order, with the outputs of
\* simulate_scenario (an omitted percentage taken as 0), and each result
\* carries the parameters its scenario gives; a percentage the scenario omits
\* is recorded as NaN when another scenario of the batch gives it, and has no
\* column otherwise.
C8_BatchSimulation ==
    (call.fn = "batch_simulation" /\ call.baseline.val # 0) =>
        /\ result.raised = "none"
        /\ Len(result.rows) = Len(call.scenarios)
        /\ \A i \in 1..Len(call.scenarios) :
               /\ SameOutputs(i)
               /\ \A key \in ScenarioKeys :
                      /\ key \in result.columns
                             <=> \E j \in 1..Len(call.scenarios) : key \in DOMAIN call.scenarios[j]
                      /\ key \in DOMAIN call.scenarios[i] =>
                             result.rows[i][key] = FInt(call.scenarios[i][key])
                      /\ (key \in result.columns /\ key \notin DOMAIN call.scenarios[i]) =>
                             result.rows[i][key] = NaN

\* two scenarios, the first giving only a price change (200 * 1.1 is the
\* float just above 220), the second only a discount
C8_Witness ==
    /\ call.fn = "batch_simulation"
    /\ call.baseline.val = 200
    /\ Len(call.scenarios) = 2
    /\ DOMAIN call.scenarios[1] = {"price_change"}
    /\ call.scenarios[1]["price_change"] = 10
    /\ DOMAIN call.scenarios[2] = {"discount"}
    /\ call.scenarios[2]["discount"] = 10
    /\ result.raised = "none"
    /\ result.rows[1]["simulated_revenue"] = FMul(FInt(200), Num(11, 10))
    /\ FLt(FInt(220), result.rows[1]["simulated_revenue"])
    /\ result.rows[2]["simulated_revenue"] = FInt(180)

===========================================================================
